---------------------------- MODULE Spec2Model ----------------------------
(***************************************************************************)
(* Model of the RSA core of the SSH client (tools/plink/sshrsa.c).         *)
(*                                                                         *)
(* Bignums are natural numbers.  A byte is ByteBits bits wide and the      *)
(* hash lengths are scaled down with it, so that every bignum of the model *)
(* stays inside the integer range of the model checker; all length and     *)
(* index arithmetic of the source is kept, with ByteBits in the place of   *)
(* the source's 8.                                                         *)
(***************************************************************************)
EXTENDS Integers, Naturals, Sequences, FiniteSets, TLC

VARIABLES pc, key, arg, ret, data, loc

vars == <<pc, key, arg, ret, data, loc>>

(***************************************************************************)
(* Bounds of the model.                                                    *)
(***************************************************************************)
\* bits of one byte (8 in the source)
ByteBits == 2
\* largest p, q, iqmp offered to rsa_verify
MaxPQ == 9
\* largest e, d offered to rsa_verify
MaxED == 7

\* the absent pointer
NULL == -1

Radix == 2 ^ ByteBits

ByteVal == 0 .. (Radix - 1)

\* an all-ones byte, 0xFF in the source
BYTE_FF == Radix - 1

Min(a, b) == IF a < b THEN a ELSE b

(***************************************************************************)
(* Bignum adapter (sshbn.c, consumed through its interface).               *)
(***************************************************************************)
RECURSIVE bignum_bitcount(_)
bignum_bitcount(x) == IF x = 0 THEN 0 ELSE 1 + bignum_bitcount(x \div 2)

bignum_byte(x, i) == (x \div (Radix ^ i)) % Radix

RECURSIVE bignum_from_bytes(_)
bignum_from_bytes(s) ==
    IF Len(s) = 0 THEN 0
    ELSE bignum_from_bytes(SubSeq(s, 1, Len(s) - 1)) * Radix + s[Len(s)]

bignum_cmp(a, b) == IF a < b THEN -1 ELSE IF a > b THEN 1 ELSE 0

bigadd(a, b) == a + b

bigsub(a, b) == a - b

bigmul(a, b) == a * b

bigmuladd(a, b, c) == a * b + c

bigmod(a, m) == a % m

\* (a * b) mod m by doubling, every intermediate value below 2 * m
RECURSIVE modmul_loop(_, _, _, _)
modmul_loop(a, b, m, acc) ==
    IF b = 0 \/ a = 0 THEN acc
    ELSE modmul_loop((a + a) % m, b \div 2, m,
                     IF b % 2 = 1 THEN (acc + a) % m ELSE acc)

modmul(a, b, m) == modmul_loop(a % m, b, m, 0)

\* (b ^ e) mod m by squaring
RECURSIVE modpow_loop(_, _, _, _)
modpow_loop(b, e, m, acc) ==
    IF e = 0 THEN acc
    ELSE IF b = 0 \/ acc = 0 THEN 0
    ELSE modpow_loop(modmul(b, b, m), e \div 2, m,
                     IF e % 2 = 1 THEN modmul(acc, b, m) ELSE acc)

modpow(b, e, m) == modpow_loop(b % m, e, m, 1 % m)

\* Euclid on (a, b) carrying the coefficients of number; NULL when a common
\* factor is found
RECURSIVE modinv_loop(_, _, _, _, _)
modinv_loop(a, b, xp, x, m) ==
    IF b = 1 THEN x % m
    ELSE IF b = 0 THEN NULL
    ELSE LET qq == a \div b
         IN  modinv_loop(b, a % b, x, (xp + m - modmul(x, qq, m)) % m, m)

modinv(number, modulus) == modinv_loop(modulus, number, 0, 1, modulus)

(***************************************************************************)
(* RSA key record.                                                         *)
(***************************************************************************)
RSAKey(n, e, d, p, q, iqmp) ==
    [modulus |-> n, exponent |-> e, private_exponent |-> d,
     p |-> p, q |-> q, iqmp |-> iqmp]

NoKey == RSAKey(NULL, NULL, NULL, NULL, NULL, NULL)

NoArg == [op |-> "none"]

(***************************************************************************)
(* rsa_verify: the result and the key as the call leaves it.               *)
(***************************************************************************)
rsa_verify_noinvcheck(k) ==
    IF bignum_cmp(bigmul(k.p, k.q), k.modulus) # 0 THEN [ret |-> 0, key |-> k]
    ELSE IF bignum_cmp(modmul(k.exponent, k.private_exponent, k.p - 1), 1) # 0
         THEN [ret |-> 0, key |-> k]
    ELSE IF bignum_cmp(modmul(k.exponent, k.private_exponent, k.q - 1), 1) # 0
         THEN [ret |-> 0, key |-> k]
    ELSE LET k2 == IF bignum_cmp(k.p, k.q) <= 0
                   THEN [k EXCEPT !.p = k.q, !.q = k.p, !.iqmp = modinv(k.p, k.q)]
                   ELSE k
         IN  IF k2.iqmp = NULL THEN [ret |-> 0, key |-> k2]
             ELSE [ret |-> 1, key |-> k2]

rsa_verify_stale_iqmp(k) ==
    IF bignum_cmp(bigmul(k.p, k.q), k.modulus) # 0 THEN [ret |-> 0, key |-> k]
    ELSE IF bignum_cmp(modmul(k.exponent, k.private_exponent, k.p - 1), 1) # 0
         THEN [ret |-> 0, key |-> k]
    ELSE IF bignum_cmp(modmul(k.exponent, k.private_exponent, k.q - 1), 1) # 0
         THEN [ret |-> 0, key |-> k]
    ELSE LET k2 == IF bignum_cmp(k.p, k.q) <= 0
                   THEN [k EXCEPT !.p = k.q, !.q = k.p]
                   ELSE k
         IN  IF bignum_cmp(modmul(k2.iqmp, k2.q, k2.p), 1) # 0
             THEN [ret |-> 0, key |-> k2]
             ELSE [ret |-> 1, key |-> k2]

rsa_verify(k) ==
    IF bignum_cmp(bigmul(k.p, k.q), k.modulus) # 0 THEN [ret |-> 0, key |-> k]
    ELSE IF bignum_cmp(modmul(k.exponent, k.private_exponent, k.p - 1), 1) # 0
         THEN [ret |-> 0, key |-> k]
    ELSE IF bignum_cmp(modmul(k.exponent, k.private_exponent, k.q - 1), 1) # 0
         THEN [ret |-> 0, key |-> k]
    ELSE LET k2 == IF bignum_cmp(k.p, k.q) <= 0
                   THEN [k EXCEPT !.p = k.q, !.q = k.p, !.iqmp = modinv(k.p, k.q)]
                   ELSE k
         IN  IF k2.iqmp = NULL THEN [ret |-> 0, key |-> k2]
             ELSE IF bignum_cmp(modmul(k2.iqmp, k2.q, k2.p), 1) # 0
                  THEN [ret |-> 0, key |-> k2]
                  ELSE [ret |-> 1, key |-> k2]

(***************************************************************************)
(* Specification SpecVerify: rsa_verify on every key of the input set.     *)
(* p and q start at 2: below that the bignum adapter is asked to reduce    *)
(* modulo zero.                                                            *)
(***************************************************************************)
VerifyInputs ==
    { RSAKey(n, e, d, p, q, i) :
        n \in {0}, e \in 1 .. MaxED, d \in 1 .. MaxED,
        p \in 2 .. MaxPQ, q \in 2 .. MaxPQ, i \in 0 .. MaxPQ }

InitVerify ==
    /\ pc = "start"
    /\ \E k \in VerifyInputs, dn \in {0, 1} :
          key = [k EXCEPT !.modulus = k.p * k.q + dn]
    /\ arg = NoArg
    /\ ret = NULL
    /\ data = <<>>
    /\ loc = <<>>

CallRsaVerify ==
    /\ pc = "start"
    /\ LET r == rsa_verify(key)
       IN  /\ key' = r.key
           /\ ret' = r.ret
    /\ arg' = [op |-> "rsa_verify", key |-> key]
    /\ pc' = "verified"
    /\ UNCHANGED <<data, loc>>

NextVerify == CallRsaVerify

SpecVerify == InitVerify /\ [][NextVerify]_vars

\* the inverse of q modulo p found by search, NULL when there is none
InverseOf(q, p) ==
    IF \E i \in 0 .. p - 1 : (i * q) % p = 1
    THEN CHOOSE i \in 0 .. p - 1 : (i * q) % p = 1
    ELSE NULL

RECURSIVE Gcd(_, _)
Gcd(a, b) == IF b = 0 THEN a ELSE Gcd(b, a % b)

\* C1: whenever rsa_verify returns success, the key it leaves satisfies
\* n = p*q, e*d mod (p-1) = 1, e*d mod (q-1) = 1, p > q and iqmp*q mod p = 1.
C1_VerifiedKeyInvariants ==
    (pc = "verified" /\ ret = 1) =>
        /\ key.modulus = key.p * key.q
        /\ (key.exponent * key.private_exponent) % (key.p - 1) = 1
        /\ (key.exponent * key.private_exponent) % (key.q - 1) = 1
        /\ key.p > key.q
        /\ (key.iqmp * key.q) % key.p = 1

C1_Witness ==
    /\ pc = "verified"
    /\ ret = 1
    /\ arg.key.p < arg.key.q
    /\ arg.key.iqmp # key.iqmp

\* the precondition of C4: p < q, n = p*q, e*d = 1 modulo p-1 and q-1
C4_Pre ==
    /\ pc = "verified"
    /\ arg.key.p < arg.key.q
    /\ arg.key.modulus = arg.key.p * arg.key.q
    /\ (arg.key.exponent * arg.key.private_exponent) % (arg.key.p - 1) = 1
    /\ (arg.key.exponent * arg.key.private_exponent) % (arg.key.q - 1) = 1

\* the same key with p and q in canonical order and the matching iqmp
Canonical(k) ==
    [k EXCEPT !.p = k.q, !.q = k.p, !.iqmp = InverseOf(k.p, k.q)]

\* C4 as stated: every key with p < q, n = p*q and e*d = 1 modulo p-1 and
\* q-1 is accepted by rsa_verify and left with p > q.
C4_Original ==
    C4_Pre => (ret = 1 /\ key.p > key.q)

\* C4 amended: when moreover p and q are coprime, rsa_verify succeeds, leaves
\* p > q, and leaves exactly the key that rsa_verify leaves when it is given
\* the same key in canonical order with the matching iqmp.
C4_SwapEqualsCanonical ==
    (C4_Pre /\ Gcd(arg.key.p, arg.key.q) = 1) =>
        /\ ret = 1
        /\ key.p > key.q
        /\ rsa_verify(Canonical(arg.key)).ret = 1
        /\ key = rsa_verify(Canonical(arg.key)).key

C4_Witness ==
    /\ C4_Pre
    /\ Gcd(arg.key.p, arg.key.q) = 1
    /\ ret = 1
    /\ key.iqmp # arg.key.iqmp
    /\ key.p = arg.key.q


(***************************************************************************)
(* Hash adapter.  One hash function stands for SHA-1, SHA-256 and SHA-512: *)
(* a digest of n bytes computed from the absorbed values, the family       *)
(* member being picked by arg.salt.                                        *)
(***************************************************************************)
\* range of the hash's internal state
HashMod == 1009

RECURSIVE hash_fold(_, _)
hash_fold(h, s) ==
    IF s = <<>> THEN h
    ELSE hash_fold((h * 31 + Head(s) + 1) % HashMod, Tail(s))

hash_bytes(salt, msg, n) ==
    [i \in 1 .. n |->
        LET h == hash_fold(salt, msg \o <<i>>)
        IN  ((h * h) \div 11) % Radix]

\* bytes of the SHA-512 digest (64 in the source)
DigestLen == 8

SHA512(msg) == hash_bytes(arg.salt, msg, DigestLen)

\* bytes of the SHA-1 digest (20 in the source)
HashLen == 1

SHA_Simple(msg) == hash_bytes(arg.salt, msg, HashLen)

(***************************************************************************)
(* crt_modpow                                                              *)
(***************************************************************************)
crt_operands_noadd(base, exp, p, q) ==
    LET presult0 == modpow(base, bigmod(exp, p - 1), p)
        qresult == modpow(base, bigmod(exp, q - 1), q)
    IN  [presult0 |-> presult0, qresult |-> qresult, presult |-> presult0]

\* lines 108-140: the two residues, and presult as the subtraction of line
\* 141 finds it
crt_operands(base, exp, p, q) ==
    LET pm1 == p - 1
        qm1 == q - 1
        pexp == bigmod(exp, pm1)
        qexp == bigmod(exp, qm1)
        presult0 == modpow(base, pexp, p)
        qresult == modpow(base, qexp, q)
    IN  [presult0 |-> presult0, qresult |-> qresult,
         presult |-> IF bignum_cmp(presult0, qresult) < 0
                     THEN bigadd(presult0, p)
                     ELSE presult0]

crt_modpow(base, exp, mod, p, q, iqmp) ==
    LET o == crt_operands(base, exp, p, q)
        diff == bigsub(o.presult, o.qresult)
        multiplier == bigmul(iqmp, q)
        ret0 == bigmuladd(multiplier, diff, o.qresult)
    IN  bigmod(ret0, mod)

(***************************************************************************)
(* rsa_privkey_op, one candidate of the rejection loop per step.           *)
(* loc holds its locals: random, random_inverse, digest512, digestused,    *)
(* hashseq.                                                                *)
(***************************************************************************)
\* length of the label "RSA deterministic blinding"
BLINDING_LABEL == 26

\* most hash derivations a call is followed through
MaxHashSeq == 12

bignum_set_bit(x, bitnum, v) ==
    x - ((x \div (2 ^ bitnum)) % 2) * (2 ^ bitnum) + v * (2 ^ bitnum)

\* locals at entry: digest512 uninitialised (never read before it is filled,
\* as digestused starts at its length), hashseq = 0
privkey_entry_static(prev) ==
    [prev EXCEPT !.random = NULL, !.random_inverse = NULL,
                 !.digestused = IF prev.digest512 = <<>> THEN DigestLen ELSE @]

privkey_entry(prev) ==
    [random |-> NULL, random_inverse |-> NULL, digest512 |-> <<>>,
     digestused |-> DigestLen, hashseq |-> 0]

\* lines 221-237: refill digest512 from hashseq, the private exponent and
\* the input
privkey_rehash(st, input, k) ==
    LET seed == SHA512(<<BLINDING_LABEL, st.hashseq, k.private_exponent>>)
    IN  [st EXCEPT !.digest512 = SHA512(seed \o <<input>>),
                   !.hashseq = @ + 1,
                   !.digestused = 0]

\* lines 213-245: while (bits--) { ... }
RECURSIVE privkey_fill(_, _, _, _, _, _)
privkey_fill(bits, byte, bitsleft, st, input, k) ==
    IF bits = 0 THEN st
    ELSE LET need == bitsleft <= 0
             st1 == IF st.digestused >= DigestLen /\ need
                    THEN privkey_rehash(st, input, k)
                    ELSE st
             byte1 == IF need THEN st1.digest512[st1.digestused + 1] ELSE byte
             st2 == IF need THEN [st1 EXCEPT !.digestused = @ + 1] ELSE st1
             bitsleft1 == IF need THEN ByteBits ELSE bitsleft
             v == byte1 % 2
         IN  privkey_fill(bits - 1, byte1 \div 2, bitsleft1 - 1,
                          [st2 EXCEPT !.random =
                              bignum_set_bit(@, bits - 1, v)],
                          input, k)

\* lines 202-268: one pass of while (1); accepted tells whether it breaks
privkey_draw(st, input, k) ==
    LET st1 == privkey_fill(bignum_bitcount(k.modulus), 0, 0,
                            [st EXCEPT !.random = k.modulus], input, k)
    IN  IF bignum_cmp(st1.random, 0) <= 0
           \/ bignum_cmp(st1.random, k.modulus) >= 0
        THEN [accepted |-> FALSE, st |-> [st1 EXCEPT !.random = NULL]]
        ELSE LET inv == modinv(st1.random, k.modulus)
             IN  IF inv = NULL
                 THEN [accepted |-> FALSE, st |-> [st1 EXCEPT !.random = NULL]]
                 ELSE [accepted |-> TRUE,
                       st |-> [st1 EXCEPT !.random_inverse = inv]]

\* lines 284-289
privkey_unblind_missing(st, input, k) ==
    LET random_encrypted == crt_modpow(st.random, k.exponent, k.modulus,
                                       k.p, k.q, k.iqmp)
        input_blinded == modmul(input, random_encrypted, k.modulus)
    IN  crt_modpow(input_blinded, k.private_exponent, k.modulus,
                   k.p, k.q, k.iqmp)

privkey_result(st, input, k) ==
    LET random_encrypted == crt_modpow(st.random, k.exponent, k.modulus,
                                       k.p, k.q, k.iqmp)
        input_blinded == modmul(input, random_encrypted, k.modulus)
        ret_blinded == crt_modpow(input_blinded, k.private_exponent,
                                  k.modulus, k.p, k.q, k.iqmp)
    IN  modmul(ret_blinded, st.random_inverse, k.modulus)

PrivDraw ==
    /\ pc = "pk_loop"
    /\ loc.hashseq <= MaxHashSeq
    /\ LET r == privkey_draw(loc, arg.input, key)
       IN  /\ loc' = r.st
           /\ pc' = IF r.accepted THEN "pk_blind" ELSE "pk_loop"
    /\ UNCHANGED <<key, arg, ret, data>>

PrivBlind ==
    /\ pc = "pk_blind"
    /\ ret' = privkey_result(loc, arg.input, key)
    /\ pc' = "pk_ret"
    /\ UNCHANGED <<key, arg, data, loc>>


(***************************************************************************)
(* SSH-2 strings and mpints (marshalling helpers of sshrsa.c).  A reader   *)
(* is [buf, pos, len]: the buffer, the offset of *data in it and *datalen. *)
(***************************************************************************)
\* bytes of a 32-bit length word
WORD_BYTES == 4

put_uint32(v) == [i \in 1 .. WORD_BYTES |-> bignum_byte(v, WORD_BYTES - i)]

GET_32BIT(buf, pos) == bignum_from_bytes(SubSeq(buf, pos + 1, pos + WORD_BYTES))

\* the unsigned word as a signed int (two's complement)
toint(u) ==
    IF u >= (Radix ^ WORD_BYTES) \div 2 THEN u - Radix ^ WORD_BYTES ELSE u

\* the characters of "ssh-rsa", each kept to ByteBits bits
SSH_RSA_NAME == [i \in 1 .. 7 |-> <<115, 115, 104, 45, 114, 115, 97>>[i] % Radix]

put_stringz(s) == put_uint32(Len(s)) \o s

getstring(rd) ==
    IF rd.len < WORD_BYTES THEN [p |-> NULL, length |-> NULL, rd |-> rd]
    ELSE LET length == toint(GET_32BIT(rd.buf, rd.pos))
         IN  IF length < 0 THEN [p |-> NULL, length |-> length, rd |-> rd]
             ELSE LET rd1 == [rd EXCEPT !.len = @ - WORD_BYTES,
                                        !.pos = @ + WORD_BYTES]
                  IN  IF rd1.len < length
                      THEN [p |-> NULL, length |-> length, rd |-> rd1]
                      ELSE [p |-> rd1.pos, length |-> length,
                            rd |-> [rd1 EXCEPT !.pos = @ + length,
                                               !.len = @ - length]]

\* the bytes a successful getstring points at
StringAt(buf, p, length) == SubSeq(buf, p + 1, p + length)

getmp(rd) ==
    LET s == getstring(rd)
    IN  IF s.p = NULL THEN [b |-> NULL, rd |-> s.rd]
        ELSE [b |-> bignum_from_bytes(StringAt(rd.buf, s.p, s.length)),
              rd |-> s.rd]

Reader(buf, len) == [buf |-> buf, pos |-> 0, len |-> len]

(***************************************************************************)
(* rsa2_sign and rsa2_verifysig                                            *)
(***************************************************************************)
\* the ASN.1 prefix, shortened to the 0x00 that ends the FFs and two bytes
\* of DER
asn1_weird_stuff == <<0, 2, 1>>

ASN1_LEN == Len(asn1_weird_stuff)

sign_nbytes_rounded_up(k) ==
    (bignum_bitcount(k.modulus) + ByteBits - 1) \div ByteBits

\* line 774
sign_nbytes(k) == (bignum_bitcount(k.modulus) - 1) \div ByteBits

\* line 775
sign_assert(k) == 1 <= sign_nbytes(k) - HashLen - ASN1_LEN

sign_bytes_ff_from_zero(k, msg) ==
    LET hash == SHA_Simple(msg)
        nbytes == sign_nbytes(k)
    IN  [i \in 0 .. nbytes - 1 |->
            IF i < nbytes - HashLen - ASN1_LEN THEN BYTE_FF
            ELSE IF i < nbytes - HashLen
                 THEN asn1_weird_stuff[i - (nbytes - HashLen - ASN1_LEN) + 1]
            ELSE hash[i - (nbytes - HashLen) + 1]]

\* lines 772-784: the encoded message
sign_bytes(k, msg) ==
    LET hash == SHA_Simple(msg)
        nbytes == sign_nbytes(k)
    IN  [i \in 0 .. nbytes - 1 |->
            IF i = 0 THEN 1
            ELSE IF i < nbytes - HashLen - ASN1_LEN THEN BYTE_FF
            ELSE IF i < nbytes - HashLen
                 THEN asn1_weird_stuff[i - (nbytes - HashLen - ASN1_LEN) + 1]
            ELSE hash[i - (nbytes - HashLen) + 1]]

\* a C array indexed from 0 as a sequence
ArrayToSeq(a, n) == [i \in 1 .. n |-> a[i - 1]]

\* lines 792-796: the blob written to the sink
sign_blob(out) ==
    LET nbytes == (bignum_bitcount(out) + ByteBits - 1) \div ByteBits
    IN  put_stringz(SSH_RSA_NAME) \o put_uint32(nbytes)
        \o [i \in 1 .. nbytes |-> bignum_byte(out, nbytes - i)]

rsa2_verifysig(k, sig, siglen, msg) ==
    LET s == getstring(Reader(sig, siglen))
    IN  IF s.p = NULL \/ s.length # 7
           \/ StringAt(sig, s.p, s.length) # SSH_RSA_NAME
        THEN 0
        ELSE LET m == getmp(s.rd)
             IN  IF m.b = NULL THEN 0
                 ELSE LET out == modpow(m.b, k.exponent, k.modulus)
                          bytes == (bignum_bitcount(k.modulus) + ByteBits - 1)
                                       \div ByteBits
                          hash == SHA_Simple(msg)
                          bad == \/ bignum_byte(out, bytes - 1) # 0
                                 \/ bignum_byte(out, bytes - 2) # 1
                                 \/ \E i \in (HashLen + ASN1_LEN) .. (bytes - 3) :
                                        bignum_byte(out, i) # BYTE_FF
                                 \/ \E j \in 0 .. ASN1_LEN - 1 :
                                        bignum_byte(out, HashLen + ASN1_LEN - 1 - j)
                                            # asn1_weird_stuff[j + 1]
                                 \/ \E j \in 0 .. HashLen - 1 :
                                        bignum_byte(out, HashLen - 1 - j)
                                            # hash[j + 1]
                      IN  IF bad THEN 0 ELSE 1


(***************************************************************************)
(* Specification SpecPriv: the private-key operation called directly       *)
(* (rsa_ssh1_decrypt, twice on the same input) and through rsa2_sign,      *)
(* followed by rsa2_verifysig on the emitted blob.                         *)
(***************************************************************************)
\* largest prime of the small keys
MaxSmallPrime == 13
\* hash functions tried
MaxSalt == 1
\* longest message signed
MaxMsgLen == 2

IsPrime(n) == n >= 2 /\ \A d \in 2 .. (n - 1) : d * d > n \/ n % d # 0

RECURSIVE NextPrime(_)
NextPrime(n) == IF IsPrime(n) THEN n ELSE NextPrime(n + 1)

ThreePrimesFrom(s) ==
    LET a == NextPrime(s)
        b == NextPrime(a + 1)
        c == NextPrime(b + 1)
    IN  {a, b, c}

RECURSIVE FirstExponent(_, _)
FirstExponent(e, phi) ==
    IF Gcd(e, phi) = 1 THEN e ELSE FirstExponent(e + 2, phi)

\* the key generated from primes p > q with the smallest usable e >= 3
MakeKey(p, q) ==
    LET phi == (p - 1) * (q - 1)
        e == FirstExponent(3, phi)
    IN  RSAKey(p * q, e, modinv(e, phi), p, q, modinv(q, p))

KeysOver(primes) ==
    { MakeKey(pq[1], pq[2]) : pq \in {x \in primes \X primes : x[2] < x[1]} }

SmallKeys == KeysOver({p \in 3 .. MaxSmallPrime : IsPrime(p)})

\* fewest modulus bits rsa2_sign's assertion admits
SignMinBits == ByteBits * (1 + ASN1_LEN + HashLen) + 1

SignKeys ==
    KeysOver(ThreePrimesFrom(2 ^ (SignMinBits \div 2)))
        \cup KeysOver(ThreePrimesFrom(2 * 2 ^ (SignMinBits \div 2)))
        \cup KeysOver(ThreePrimesFrom((3 * 2 ^ (SignMinBits \div 2)) \div 2))

\* keys as a caller holds them: accepted by rsa_verify
PrivKeys == { rsa_verify(k).key : k \in {c \in SmallKeys \cup SignKeys : rsa_verify(c).ret = 1} }

DecryptInputs(k) ==
    IF k \in SmallKeys THEN 0 .. k.modulus - 1
    ELSE {0, 1, 2, k.p, k.q, 2 * k.p, k.modulus - k.q, k.modulus - 1}

RECURSIVE SeqsUpTo(_, _)
SeqsUpTo(S, n) ==
    IF n = 0 THEN {<<>>}
    ELSE LET r == SeqsUpTo(S, n - 1)
         IN  r \cup { Append(s, x) : s \in {t \in r : Len(t) = n - 1}, x \in S }

Messages == SeqsUpTo({0, 1}, MaxMsgLen)

NoLocals ==
    [random |-> NULL, random_inverse |-> NULL, digest512 |-> <<>>,
     digestused |-> 0, hashseq |-> 0]

InitPriv ==
    /\ pc = "start"
    /\ key \in PrivKeys
    /\ \E s \in 0 .. MaxSalt :
          arg = [op |-> "none", salt |-> s, input |-> NULL, msg |-> <<>>,
                 run |-> 0, first |-> <<>>, bytes |-> <<>>]
    /\ ret = NULL
    /\ data = <<>>
    /\ loc = NoLocals

\* rsa_ssh1_decrypt: enters rsa_privkey_op
CallDecrypt ==
    /\ pc = "start"
    /\ \E x \in DecryptInputs(key) :
          arg' = [arg EXCEPT !.op = "rsa_ssh1_decrypt", !.input = x, !.run = 1]
    /\ loc' = privkey_entry(loc)
    /\ pc' = "pk_loop"
    /\ UNCHANGED <<key, ret, data>>

\* the same call made a second time, the first result kept by the caller
CallDecryptAgain ==
    /\ pc = "pk_ret"
    /\ arg.op = "rsa_ssh1_decrypt"
    /\ arg.run = 1
    /\ arg' = [arg EXCEPT !.run = 2,
                          !.first = [ret |-> ret, random |-> loc.random]]
    /\ loc' = privkey_entry(loc)
    /\ ret' = NULL
    /\ pc' = "pk_loop"
    /\ UNCHANGED <<key, data>>

\* rsa2_sign up to its call of rsa_privkey_op; the assertion of line 775
\* ends the program when the modulus is too short
CallSign ==
    /\ pc = "start"
    /\ \E m \in Messages :
          IF sign_assert(key)
          THEN /\ arg' = [arg EXCEPT
                            !.op = "rsa2_sign", !.msg = m, !.run = 1,
                            !.bytes = ArrayToSeq(sign_bytes(key, m),
                                                 sign_nbytes(key)),
                            !.input = bignum_from_bytes(
                                ArrayToSeq(sign_bytes(key, m), sign_nbytes(key)))]
               /\ loc' = privkey_entry(loc)
               /\ pc' = "pk_loop"
          ELSE /\ arg' = [arg EXCEPT !.op = "rsa2_sign"]
               /\ loc' = loc
               /\ pc' = "abort"
    /\ UNCHANGED <<key, ret, data>>

\* rsa2_sign after rsa_privkey_op returned: the blob
SignEmit ==
    /\ pc = "pk_ret"
    /\ arg.op = "rsa2_sign"
    /\ data' = sign_blob(ret)
    /\ pc' = "signed"
    /\ UNCHANGED <<key, arg, ret, loc>>

CallVerifySig ==
    /\ pc = "signed"
    /\ ret' = rsa2_verifysig(key, data, Len(data), arg.msg)
    /\ pc' = "sig_checked"
    /\ UNCHANGED <<key, arg, data, loc>>

NextPriv ==
    \/ CallDecrypt
    \/ CallDecryptAgain
    \/ CallSign
    \/ PrivDraw
    \/ PrivBlind
    \/ SignEmit
    \/ CallVerifySig

SpecPriv == InitPriv /\ [][NextPriv]_vars

\* x^d mod n as the product of d factors x, multiplied pairwise
RECURSIVE RefPow(_, _, _)
RefPow(x, d, n) ==
    IF d = 0 THEN 1 % n
    ELSE IF d = 1 THEN x % n
    ELSE LET a == RefPow(x, d \div 2, n)
             b == RefPow(x, d - d \div 2, n)
         IN  IF a = 0 \/ b = 0 THEN 0 ELSE modmul(a, b, n)

\* every call is followed to its end within the bound on hashseq
PrivLoopWithinBound == (pc = "pk_loop") => (loc.hashseq <= MaxHashSeq)

\* C2: rsa2_verifysig on the blob rsa2_sign emitted for M, with the same
\* (e, n), returns success.
C2_SignVerifyRoundTrip ==
    (pc = "sig_checked") => (ret = 1)

C2_Witness ==
    /\ pc = "sig_checked"
    /\ ret = 1
    /\ sign_nbytes(key) - HashLen - ASN1_LEN > 1
    /\ Len(arg.msg) > 0

\* C3: rsa_privkey_op returns x^d mod n: the result is below n, its e-th
\* power is x (x -> x^e is a permutation of 0..n-1 for such a key), and for
\* the small keys it is the product of d factors x.
C3_PrivkeyOpIsModpow ==
    (pc = "pk_ret") =>
        /\ ret \in 0 .. key.modulus - 1
        /\ RefPow(ret, key.exponent, key.modulus) = arg.input
        /\ (key \in SmallKeys =>
                ret = RefPow(arg.input, key.private_exponent, key.modulus))

C3_Witness ==
    /\ pc = "pk_ret"
    /\ loc.random > 1
    /\ arg.input > 1
    /\ arg.input % key.p = 0
    /\ ret = RefPow(arg.input, key.private_exponent, key.modulus)
    /\ key \in SmallKeys

\* C5: a second rsa_privkey_op on the same input and key accepts the same
\* blinding value and returns the same result as the first.
C5_DeterministicBlinding ==
    (pc = "pk_ret" /\ arg.run = 2) =>
        /\ ret = arg.first.ret
        /\ loc.random = arg.first.random

C5_Witness ==
    /\ pc = "pk_ret"
    /\ arg.run = 2
    /\ loc.hashseq > 1
    /\ ret = arg.first.ret


(***************************************************************************)
(* Randomness: random_byte() returns the successive bytes of a stream      *)
(* picked by arg.seed.                                                     *)
(***************************************************************************)
random_stream(seed, j) == hash_bytes(seed, <<j, seed>>, 1)[1]

\* do { data[i] = random_byte(); } while (data[i] == 0): the index of the
\* byte the loop ends on
RECURSIVE next_nonzero(_, _)
next_nonzero(seed, j) ==
    IF random_stream(seed, j) # 0 THEN j ELSE next_nonzero(seed, j + 1)

(***************************************************************************)
(* rsa_ssh1_encrypt.  Buffers are sequences: data[i] of the source is      *)
(* data[i + 1] here.                                                       *)
(***************************************************************************)
ssh1_too_short_lax(k, length) == k.bytes < length + 3

\* the length test of line 68
ssh1_too_short(k, length) == k.bytes < length + 4

\* lines 75-79
RECURSIVE ssh1_pad_loop(_, _, _, _, _)
ssh1_pad_loop(d, i, lim, seed, j) ==
    IF i >= lim THEN d
    ELSE LET j2 == next_nonzero(seed, j)
         IN  ssh1_pad_loop([d EXCEPT ![i + 1] = random_stream(seed, j2)],
                           i + 1, lim, seed, j2 + 1)

\* a byte-by-byte forward copy in the place of memmove
RECURSIVE forward_copy(_, _, _, _)
forward_copy(d, dst, n, i) ==
    IF i >= n THEN d
    ELSE forward_copy([d EXCEPT ![dst + i + 1] = d[i + 1]], dst, n, i + 1)

ssh1_pad_memcpy(d, length, bytes, seed) ==
    LET moved == forward_copy(d, bytes - length, length, 0)
        hdr == [moved EXCEPT ![1] = 0, ![2] = 2]
        padded == ssh1_pad_loop(hdr, 2, bytes - length - 1, seed, 0)
    IN  [padded EXCEPT ![bytes - length] = 0]

\* lines 71-80
ssh1_pad(d, length, bytes, seed) ==
    LET moved == [i \in 1 .. Len(d) |->
                    IF i > bytes - length /\ i <= bytes
                    THEN d[i - (bytes - length)]
                    ELSE d[i]]
        hdr == [moved EXCEPT ![1] = 0, ![2] = 2]
        padded == ssh1_pad_loop(hdr, 2, bytes - length - 1, seed, 0)
    IN  [padded EXCEPT ![bytes - length] = 0]

\* lines 82-89
ssh1_modpow(d, k) ==
    LET b1 == bignum_from_bytes(SubSeq(d, 1, k.bytes))
        b2 == modpow(b1, k.exponent, k.modulus)
    IN  [i \in 1 .. Len(d) |->
            IF i <= k.bytes THEN bignum_byte(b2, k.bytes - i) ELSE d[i]]

(***************************************************************************)
(* ssh_rsakex_encrypt and oaep_mask                                        *)
(***************************************************************************)
RECURSIVE Xor(_, _)
Xor(a, b) ==
    IF a = 0 THEN b
    ELSE IF b = 0 THEN a
    ELSE 2 * Xor(a \div 2, b \div 2) + ((a + b) % 2)

\* h->init, put_data..., h->final for the key-exchange hash of length hlen
kex_hash(hlen, msg) == hash_bytes(arg.salt, msg, hlen)

\* lines 841-860: d with its bytes from pos on masked
RECURSIVE oaep_mask_loop(_, _, _, _, _, _)
oaep_mask_loop(hlen, seed, d, pos, datalen, count) ==
    IF datalen <= 0 THEN d
    ELSE LET max == IF datalen > hlen THEN hlen ELSE datalen
             hash == kex_hash(hlen, seed \o put_uint32(count))
             d1 == [i \in 1 .. Len(d) |->
                      IF i > pos /\ i <= pos + max
                      THEN Xor(d[i], hash[i - pos])
                      ELSE d[i]]
         IN  oaep_mask_loop(hlen, seed, d1, pos + max, datalen - max, count + 1)

oaep_mask_count_stuck(hlen, seed, d) ==
    [i \in 1 .. Len(d) |->
        Xor(d[i], kex_hash(hlen, seed \o put_uint32(0))[((i - 1) % hlen) + 1])]

oaep_mask(hlen, seed, d) == oaep_mask_loop(hlen, seed, d, 0, Len(d), 0)

\* line 899
rsakex_k(k) == (ByteBits - 1 + bignum_bitcount(k.modulus)) \div ByteBits

\* line 902
rsakex_assert(hlen, inlen, k) == inlen > 0 /\ inlen <= k - 2 * hlen - 2

\* lines 912-923: the unmasked output
oaep_plain(hlen, in, outlen, seed) ==
    LET inlen == Len(in)
        o1 == [i \in 1 .. outlen |-> 0]
        o2 == [i \in 1 .. outlen |->
                 IF i >= 2 /\ i <= hlen + 1 THEN random_stream(seed, i - 2)
                 ELSE o1[i]]
        lhash == kex_hash(hlen, <<>>)
        o3 == [i \in 1 .. outlen |->
                 IF i >= hlen + 2 /\ i <= 2 * hlen + 1 THEN lhash[i - hlen - 1]
                 ELSE o2[i]]
        o4 == [i \in 1 .. outlen |-> IF i >= 2 * hlen + 2 THEN 0 ELSE o3[i]]
        o5 == [o4 EXCEPT ![outlen - inlen] = 1]
    IN  [i \in 1 .. outlen |-> IF i > outlen - inlen THEN in[i - (outlen - inlen)]
                               ELSE o5[i]]

\* lines 928-933: the two maskings
oaep_masked(hlen, out) ==
    LET outlen == Len(out)
        db == oaep_mask(hlen, SubSeq(out, 2, hlen + 1),
                        SubSeq(out, hlen + 2, outlen))
        sd == oaep_mask(hlen, db, SubSeq(out, 2, hlen + 1))
    IN  <<out[1]>> \o sd \o db

\* lines 939-944
rsakex_modpow(out, k) ==
    LET b1 == bignum_from_bytes(out)
        b2 == modpow(b1, k.exponent, k.modulus)
    IN  [i \in 1 .. Len(out) |-> bignum_byte(b2, Len(out) - i)]


(***************************************************************************)
(* Specification SpecPad: rsa_ssh1_encrypt and ssh_rsakex_encrypt, each    *)
(* stopped once at the buffer it hands to modpow.                          *)
(***************************************************************************)
\* longest modulus, in bytes
MaxKeyBytes == 9
\* longest plaintext
MaxPlainLen == 6
\* random streams tried
MaxSeed == 2
\* plaintext contents tried per length
MaxPattern == 1
\* longest key-exchange hash
MaxKexHashLen == 2

PubKey(n, e) ==
    [modulus |-> n, exponent |-> e,
     bytes |-> (bignum_bitcount(n) + ByteBits - 1) \div ByteBits]

EncKeys == { PubKey(Radix ^ (b - 1) + 1, 3) : b \in 1 .. MaxKeyBytes }

PlainText(c, L) == hash_bytes(c + 5, <<L>>, L)

\* the caller's buffer: the plaintext, then whatever the buffer held
CallerBuffer(in, bytes, g) ==
    [i \in 1 .. (IF bytes > Len(in) THEN bytes ELSE Len(in)) |->
        IF i <= Len(in) THEN in[i] ELSE g]

InitPad ==
    /\ pc = "start"
    /\ key \in EncKeys
    /\ \E L \in 0 .. MaxPlainLen, c \in 0 .. MaxPattern, sd \in 0 .. MaxSeed,
          s \in 0 .. MaxSalt, g \in {0, BYTE_FF} :
          /\ arg = [op |-> "none", in |-> PlainText(c, L), length |-> L,
                    seed |-> sd, salt |-> s, hlen |-> 0]
          /\ data = CallerBuffer(PlainText(c, L), key.bytes, g)
    /\ ret = NULL
    /\ loc = <<>>

\* rsa_ssh1_encrypt up to its call of modpow, or to its early return
Ssh1EncryptPad ==
    /\ pc = "start"
    /\ arg' = [arg EXCEPT !.op = "rsa_ssh1_encrypt"]
    /\ loc' = data
    /\ IF ssh1_too_short(key, arg.length)
       THEN /\ ret' = 0
            /\ pc' = "enc_ret"
            /\ data' = data
       ELSE /\ data' = ssh1_pad(data, arg.length, key.bytes, arg.seed)
            /\ pc' = "enc_modpow"
            /\ ret' = ret
    /\ UNCHANGED key

Ssh1EncryptModpow ==
    /\ pc = "enc_modpow"
    /\ data' = ssh1_modpow(data, key)
    /\ ret' = 1
    /\ pc' = "enc_ret"
    /\ UNCHANGED <<key, arg, loc>>

\* ssh_rsakex_encrypt up to its call of modpow; the assertion of line 902
\* ends the program
OaepEncode ==
    /\ pc = "start"
    /\ \E hlen \in 1 .. MaxKexHashLen :
          /\ arg' = [arg EXCEPT !.op = "ssh_rsakex_encrypt", !.hlen = hlen]
          /\ IF rsakex_assert(hlen, Len(arg.in), rsakex_k(key))
             THEN /\ data' = oaep_masked(hlen,
                                oaep_plain(hlen, arg.in, rsakex_k(key), arg.seed))
                  /\ pc' = "oaep_modpow"
             ELSE /\ data' = data
                  /\ pc' = "abort"
    /\ UNCHANGED <<key, ret, loc>>

OaepModpow ==
    /\ pc = "oaep_modpow"
    /\ data' = rsakex_modpow(data, key)
    /\ pc' = "oaep_ret"
    /\ UNCHANGED <<key, arg, ret, loc>>

NextPad ==
    \/ Ssh1EncryptPad
    \/ Ssh1EncryptModpow
    \/ OaepEncode
    \/ OaepModpow

SpecPad == InitPad /\ [][NextPad]_vars

\* C6: for L <= key.bytes - 4 rsa_ssh1_encrypt succeeds, and the key.bytes
\* bytes it hands to modpow are 00, 02, non-zero bytes at 2..key.bytes-L-2,
\* 00 at key.bytes-L-1, then the L bytes of the plaintext.
C6_Ssh1PaddedBuffer ==
    /\ (pc = "enc_ret" /\ arg.length <= key.bytes - 4) => ret = 1
    /\ (pc = "enc_modpow") =>
          LET handed == SubSeq(data, 1, key.bytes)
              L == arg.length
          IN  /\ L <= key.bytes - 4
              /\ Len(handed) = key.bytes
              /\ handed[1] = 0
              /\ handed[2] = 2
              /\ \A i \in 2 .. key.bytes - L - 2 : handed[i + 1] # 0
              /\ handed[key.bytes - L] = 0
              /\ SubSeq(handed, key.bytes - L + 1, key.bytes) = arg.in

C6_Witness ==
    /\ pc = "enc_modpow"
    /\ arg.length > key.bytes - arg.length
    /\ \E i \in 1 .. arg.length : arg.in[i] # arg.in[1]

\* C7 as stated: rsa_ssh1_encrypt fails, the buffer unchanged, whenever
\* length + 11 > key.bytes.
C7_Original ==
    (pc = "enc_ret" /\ arg.length + 11 > key.bytes) => (ret = 0 /\ data = loc)

\* C7 amended: rsa_ssh1_encrypt fails, the buffer unchanged, whenever
\* length + 4 > key.bytes.
C7_FailsBelowFourSpare ==
    (pc = "enc_ret" /\ arg.length + 4 > key.bytes) => (ret = 0 /\ data = loc)

C7_Witness ==
    /\ pc = "enc_ret"
    /\ arg.length + 4 > key.bytes
    /\ arg.length + 3 = key.bytes
    /\ ret = 0
    /\ data = loc

\* MGF1 as the key exchange's peer computes it: the hashes of seed ||
\* counter for counter = 0, 1, ..., cut to len bytes
MGF1(hlen, seed, len) ==
    [i \in 1 .. len |->
        kex_hash(hlen, seed \o put_uint32((i - 1) \div hlen))[((i - 1) % hlen) + 1]]

XorSeq(a, b) == [i \in 1 .. Len(a) |-> Xor(a[i], b[i])]

\* C8: before modpow out[0] = 0, and unmasking the seed with MGF1 of the
\* masked DB, then DB with MGF1 of that seed, gives the seed drawn, then
\* h(""), zero bytes, 0x01 at index k-inlen-1 and the plaintext.
C8_OaepUnmasks ==
    (pc = "oaep_modpow") =>
        LET hlen == arg.hlen
            k == Len(data)
            inlen == Len(arg.in)
            maskedSeed == SubSeq(data, 2, hlen + 1)
            maskedDB == SubSeq(data, hlen + 2, k)
            seed == XorSeq(maskedSeed, MGF1(hlen, maskedDB, hlen))
            db == XorSeq(maskedDB, MGF1(hlen, seed, k - hlen - 1))
        IN  /\ k = rsakex_k(key)
            /\ data[1] = 0
            /\ seed = [i \in 1 .. hlen |-> random_stream(arg.seed, i - 1)]
            /\ db = kex_hash(hlen, <<>>)
                      \o [i \in 1 .. k - inlen - 2 * hlen - 2 |-> 0]
                      \o <<1>> \o arg.in

C8_Witness ==
    /\ pc = "oaep_modpow"
    /\ arg.hlen = 2
    /\ Len(data) - Len(arg.in) - 2 * arg.hlen - 2 > 0
    /\ Len(arg.in) > 1

(***************************************************************************)
(* rsa_ssh1_readpub.  ssh1_read_bignum follows the SSH-1 mpint layout: a   *)
(* two-byte bit count, then the magnitude of ceiling(bits / byte) bytes.   *)
(***************************************************************************)
\* bytes of the mpint's bit-count word
SSH1_COUNT_BYTES == 2

NoBignum == [n |-> -1, v |-> NULL]

\* n: the bytes consumed or -1; v: the bignum decoded when one is asked for
ssh1_read_bignum(d, pos, len, wanted) ==
    IF len < SSH1_COUNT_BYTES THEN NoBignum
    ELSE LET w == bignum_from_bytes(SubSeq(d, pos + 1, pos + SSH1_COUNT_BYTES))
             b == (w + ByteBits - 1) \div ByteBits
         IN  IF len < b + SSH1_COUNT_BYTES THEN NoBignum
             ELSE [n |-> b + SSH1_COUNT_BYTES,
                   v |-> IF wanted
                         THEN bignum_from_bytes(
                                  SubSeq(d, pos + SSH1_COUNT_BYTES + 1,
                                         pos + SSH1_COUNT_BYTES + b))
                         ELSE NULL]

NoResult == [bits |-> NULL, exponent |-> NULL, modulus |-> NULL, bytes |-> NULL]

ReadpubFail(result) == [ret |-> -1, result |-> result, keystr |-> NULL]

rsa_ssh1_readpub_nozerocheck(d, len, withresult, order) ==
    IF len < WORD_BYTES THEN ReadpubFail(NoResult)
    ELSE
    LET r0 == IF withresult THEN [NoResult EXCEPT !.bits = GET_32BIT(d, 0)]
              ELSE NoResult
        p1 == WORD_BYTES
        len1 == len - WORD_BYTES
        e1 == IF order = "EXPONENT_FIRST"
              THEN ssh1_read_bignum(d, p1, len1, withresult)
              ELSE [n |-> 0, v |-> NULL]
    IN  IF e1.n < 0 THEN ReadpubFail(r0)
        ELSE
        LET r1 == [r0 EXCEPT !.exponent = e1.v]
            p2 == p1 + e1.n
            len2 == len1 - e1.n
            mo == ssh1_read_bignum(d, p2, len2, withresult)
        IN  IF mo.n < 0 THEN ReadpubFail(r1)
            ELSE
            LET r2 == IF withresult
                      THEN [r1 EXCEPT !.modulus = mo.v,
                                      !.bytes = mo.n - SSH1_COUNT_BYTES]
                      ELSE r1
                p3 == p2 + mo.n
                len3 == len2 - mo.n
                e2 == IF order = "MODULUS_FIRST"
                      THEN ssh1_read_bignum(d, p3, len3, withresult)
                      ELSE [n |-> 0, v |-> NULL]
            IN  IF e2.n < 0
                THEN [ret |-> -1, result |-> r2, keystr |-> p2 + SSH1_COUNT_BYTES]
                ELSE [ret |-> p3 + e2.n,
                      result |-> IF order = "MODULUS_FIRST"
                                 THEN [r2 EXCEPT !.exponent = e2.v] ELSE r2,
                      keystr |-> p2 + SSH1_COUNT_BYTES]

\* ret: the value returned; result: the caller's record as the call leaves
\* it; keystr: the offset stored through keystr
rsa_ssh1_readpub(d, len, withresult, order) ==
    IF len < WORD_BYTES THEN ReadpubFail(NoResult)
    ELSE
    LET r0 == IF withresult THEN [NoResult EXCEPT !.bits = GET_32BIT(d, 0)]
              ELSE NoResult
        p1 == WORD_BYTES
        len1 == len - WORD_BYTES
        e1 == IF order = "EXPONENT_FIRST"
              THEN ssh1_read_bignum(d, p1, len1, withresult)
              ELSE [n |-> 0, v |-> NULL]
    IN  IF e1.n < 0 THEN ReadpubFail(r0)
        ELSE
        LET r1 == [r0 EXCEPT !.exponent = e1.v]
            p2 == p1 + e1.n
            len2 == len1 - e1.n
            mo == ssh1_read_bignum(d, p2, len2, withresult)
        IN  IF mo.n < 0 THEN ReadpubFail(r1)
            ELSE IF withresult /\ bignum_bitcount(mo.v) = 0
            THEN ReadpubFail([r1 EXCEPT !.modulus = mo.v])
            ELSE
            LET r2 == IF withresult
                      THEN [r1 EXCEPT !.modulus = mo.v,
                                      !.bytes = mo.n - SSH1_COUNT_BYTES]
                      ELSE r1
                p3 == p2 + mo.n
                len3 == len2 - mo.n
                e2 == IF order = "MODULUS_FIRST"
                      THEN ssh1_read_bignum(d, p3, len3, withresult)
                      ELSE [n |-> 0, v |-> NULL]
            IN  IF e2.n < 0
                THEN [ret |-> -1, result |-> r2, keystr |-> p2 + SSH1_COUNT_BYTES]
                ELSE [ret |-> p3 + e2.n,
                      result |-> IF order = "MODULUS_FIRST"
                                 THEN [r2 EXCEPT !.exponent = e2.v] ELSE r2,
                      keystr |-> p2 + SSH1_COUNT_BYTES]

(***************************************************************************)
(* Specification SpecReadPub: rsa_ssh1_readpub on blobs built from two     *)
(* mpints, followed by bytes of a later field, with every len up to the    *)
(* buffer's size.                                                          *)
(***************************************************************************)
\* largest bit count written in an mpint
MaxMpBits == 5

RsaSsh1Order == {"EXPONENT_FIRST", "MODULUS_FIRST"}

MpBytes(w) == (w + ByteBits - 1) \div ByteBits

\* an mpint with bit count w whose magnitude bytes all equal fill
Mpint1(mp) ==
    <<mp.w \div Radix, mp.w % Radix>> \o [i \in 1 .. MpBytes(mp.w) |-> mp.fill]

MpintChoices == [w : 0 .. MaxMpBits, fill : {0, BYTE_FF}]

Ssh1Blob(e, mo, order) ==
    put_uint32(mo.w)
        \o (IF order = "EXPONENT_FIRST" THEN Mpint1(e) \o Mpint1(mo)
            ELSE Mpint1(mo) \o Mpint1(e))
        \o <<BYTE_FF, BYTE_FF>>

InitReadPub ==
    /\ pc = "start"
    /\ \E e \in MpintChoices, mo \in MpintChoices, order \in RsaSsh1Order,
          withresult \in BOOLEAN :
          /\ data = Ssh1Blob(e, mo, order)
          /\ \E len \in 0 .. Len(data) :
                arg = [op |-> "none", len |-> len, order |-> order,
                       result |-> withresult, exp |-> e, mod |-> mo]
    /\ key = NoResult
    /\ ret = NULL
    /\ loc = <<>>

CallReadPub ==
    /\ pc = "start"
    /\ LET r == rsa_ssh1_readpub(data, arg.len, arg.result, arg.order)
       IN  /\ ret' = r.ret
           /\ key' = r.result
           /\ loc' = [keystr |-> r.keystr]
    /\ arg' = [arg EXCEPT !.op = "rsa_ssh1_readpub"]
    /\ pc' = "readpub_ret"
    /\ UNCHANGED data

\* lines 456-477; maxlen is not reduced after the exponent (line 469)
rsa_public_blob_len(d, maxlen) ==
    IF maxlen < WORD_BYTES THEN -1
    ELSE
    LET p1 == WORD_BYTES
        maxlen1 == maxlen - WORD_BYTES
        e == ssh1_read_bignum(d, p1, maxlen1, FALSE)
    IN  IF e.n < 0 THEN -1
        ELSE
        LET p2 == p1 + e.n
            mo == ssh1_read_bignum(d, p2, maxlen1, FALSE)
        IN  IF mo.n < 0 THEN -1 ELSE p2 + mo.n

\* the bit count of the second mpint may be read past the end of the
\* caller's buffer: those bytes are whatever follows it in memory
CallBlobLen ==
    /\ pc = "start"
    /\ \E g \in ByteVal \X ByteVal :
          ret' = rsa_public_blob_len(data \o <<g[1], g[2]>>, arg.len)
    /\ arg' = [arg EXCEPT !.op = "rsa_public_blob_len"]
    /\ pc' = "bloblen_ret"
    /\ UNCHANGED <<key, data, loc>>

NextReadPub ==
    \/ CallReadPub
    \/ CallBlobLen

SpecReadPub == InitReadPub /\ [][NextReadPub]_vars

\* the bytes the two mpints and the length word occupy
ReadpubTotal ==
    WORD_BYTES + (SSH1_COUNT_BYTES + MpBytes(arg.exp.w))
               + (SSH1_COUNT_BYTES + MpBytes(arg.mod.w))

ReadpubTruncated == arg.len < ReadpubTotal

ReadpubZeroModulus == arg.mod.w = 0 \/ arg.mod.fill = 0

\* C10 as stated: for both orders, with or without a result record, the
\* return value is -1 or the bytes consumed (4 plus the two mpint lengths,
\* at most len), and it is -1 whenever the input is truncated or the
\* modulus has zero bit count.
C10_Original ==
    (pc = "readpub_ret") =>
        /\ ret = -1 \/ (ret = ReadpubTotal /\ ret <= arg.len)
        /\ (ReadpubTruncated \/ ReadpubZeroModulus) => ret = -1

\* C10 amended: the same, with -1 for a modulus of zero bit count only when
\* a result record is supplied.
C10_ReadpubContract ==
    (pc = "readpub_ret") =>
        /\ ret = -1 \/ (ret = ReadpubTotal /\ ret <= arg.len)
        /\ (ReadpubTruncated \/ (arg.result /\ ReadpubZeroModulus)) => ret = -1

C10_Witness ==
    /\ pc = "readpub_ret"
    /\ arg.result
    /\ arg.order = "MODULUS_FIRST"
    /\ ReadpubZeroModulus
    /\ arg.mod.w > 0
    /\ ~ReadpubTruncated
    /\ ret = -1

(***************************************************************************)
(* The ssh-rsa key constructors.  A constructor's outcome is a record:     *)
(* how holds "ret" when the call returns, "null_key" when it goes through  *)
(* an absent key and "null_bignum" when it goes through an absent bignum;  *)
(* nonnull says whether a key is returned; struct and live say what has    *)
(* become of the struct RSAKey allocated and how many bignums read from    *)
(* the blobs are still allocated without belonging to a returned key.      *)
(***************************************************************************)
\* an SSH-2 mpint: the length word, then the magnitude with room for a sign
\* bit
put_mp_ssh2(x) ==
    LET bytes == (bignum_bitcount(x) + ByteBits) \div ByteBits
    IN  put_uint32(bytes) \o [i \in 1 .. bytes |-> bignum_byte(x, bytes - i)]

KeyFields == {"modulus", "exponent", "private_exponent", "p", "q", "iqmp"}

BignumsHeld(k) == Cardinality({f \in KeyFields : k[f] # NULL})

\* the bignums freersakey releases
freersakey(k) == Cardinality({f \in KeyFields : k[f] # NULL})

rsa2_freekey(k) ==
    [how |-> "ret", nonnull |-> FALSE, key |-> NoKey, struct |-> "freed",
     live |-> BignumsHeld(k) - freersakey(k)]

Returned(k) ==
    [how |-> "ret", nonnull |-> TRUE, key |-> k, struct |-> "live", live |-> 0]

rsa2_newkey(buf, len) ==
    LET s == getstring(Reader(buf, len))
    IN  IF \/ s.p = NULL
           \/ s.length # Len(SSH_RSA_NAME)
           \/ StringAt(buf, s.p, s.length) # SSH_RSA_NAME
        THEN [how |-> "ret", nonnull |-> FALSE, key |-> NoKey,
              struct |-> "freed", live |-> 0]
        ELSE LET e == getmp(s.rd)
                 mo == getmp(e.rd)
                 rsa == RSAKey(mo.b, e.b, NULL, NULL, NULL, NULL)
             IN  IF e.b = NULL \/ mo.b = NULL THEN rsa2_freekey(rsa)
                 ELSE Returned(rsa)

NullBignum(rsa) ==
    [how |-> "null_bignum", nonnull |-> FALSE, key |-> rsa, struct |-> "live",
     live |-> BignumsHeld(rsa)]

\* rsa_verify called on a key whose private fields may be absent: the
\* fields are used in the order p and q, d, iqmp
verify_or_free(rsa) ==
    IF rsa.p = NULL \/ rsa.q = NULL THEN NullBignum(rsa)
    ELSE IF bignum_cmp(bigmul(rsa.p, rsa.q), rsa.modulus) # 0
    THEN rsa2_freekey(rsa)
    ELSE IF rsa.private_exponent = NULL THEN NullBignum(rsa)
    ELSE IF \/ bignum_cmp(modmul(rsa.exponent, rsa.private_exponent,
                                 rsa.p - 1), 1) # 0
            \/ bignum_cmp(modmul(rsa.exponent, rsa.private_exponent,
                                 rsa.q - 1), 1) # 0
    THEN rsa2_freekey(rsa)
    ELSE IF rsa.iqmp = NULL THEN NullBignum(rsa)
    ELSE LET v == rsa_verify(rsa)
         IN  IF v.ret = 0 THEN rsa2_freekey(v.key) ELSE Returned(v.key)

rsa2_createkey(pub_blob, pub_len, priv_blob, priv_len) ==
    LET nk == rsa2_newkey(pub_blob, pub_len)
    IN  IF ~nk.nonnull
        THEN [nk EXCEPT !.how = "null_key"]
        ELSE LET d == getmp(Reader(priv_blob, priv_len))
                 p == getmp(d.rd)
                 q == getmp(p.rd)
                 iqmp == getmp(q.rd)
             IN  verify_or_free([nk.key EXCEPT !.private_exponent = d.b,
                                               !.p = p.b, !.q = q.b,
                                               !.iqmp = iqmp.b])

\* *blob and *len as the six getmp calls leave them
openssh_rest(blob, len) ==
    LET rd == getmp(getmp(getmp(getmp(getmp(getmp(
                  Reader(blob, len)).rd).rd).rd).rd).rd).rd
    IN  [pos |-> rd.pos, len |-> rd.len]

rsa2_openssh_createkey(blob, len) ==
    LET mo == getmp(Reader(blob, len))
        e == getmp(mo.rd)
        d == getmp(e.rd)
        iqmp == getmp(d.rd)
        p == getmp(iqmp.rd)
        q == getmp(p.rd)
        rsa == RSAKey(mo.b, e.b, d.b, p.b, q.b, iqmp.b)
    IN  IF \E f \in KeyFields : rsa[f] = NULL THEN rsa2_freekey(rsa)
        ELSE verify_or_free(rsa)

(***************************************************************************)
(* Specification SpecKeys: the three constructors on the blobs of a key,   *)
(* one of the blobs carrying a fault.                                      *)
(***************************************************************************)
\* a key in canonical order, the same key with p and q exchanged, and a key
\* whose private exponent does not match
BlobKeys ==
    LET k == MakeKey(7, 3)
    IN  {k, [k EXCEPT !.p = k.q, !.q = k.p],
         [k EXCEPT !.private_exponent = @ + 1]}

\* the name of another key algorithm, of the same length
SSH_DSS_NAME == [i \in 1 .. 7 |-> <<115, 115, 104, 45, 100, 115, 115>>[i] % Radix]

\* the strings of each blob, without their length words
MpBody(x) == SubSeq(put_mp_ssh2(x), WORD_BYTES + 1, Len(put_mp_ssh2(x)))

BlobFields(k, blob) ==
    IF blob = "pub"
    THEN <<SSH_RSA_NAME, MpBody(k.exponent), MpBody(k.modulus)>>
    ELSE IF blob = "priv"
    THEN <<MpBody(k.private_exponent), MpBody(k.p), MpBody(k.q), MpBody(k.iqmp)>>
    ELSE <<MpBody(k.modulus), MpBody(k.exponent), MpBody(k.private_exponent),
           MpBody(k.iqmp), MpBody(k.p), MpBody(k.q)>>

\* the strings with their length words, the j-th word made negative
RECURSIVE EncodeFields(_, _)
EncodeFields(fs, j) ==
    IF fs = <<>> THEN <<>>
    ELSE (IF j = 1 THEN [put_uint32(Len(fs[1])) EXCEPT ![1] = BYTE_FF]
          ELSE put_uint32(Len(fs[1])))
         \o fs[1] \o EncodeFields(Tail(fs), j - 1)

BlobNames == {"pub", "priv", "openssh"}

Faults(k, blob) ==
    LET fs == BlobFields(k, blob)
        full == Len(EncodeFields(fs, 0))
    IN  {[kind |-> "none", at |-> 0]}
        \cup [kind : {"truncated"}, at : 0 .. full - 1]
        \cup [kind : {"negative"}, at : 1 .. Len(fs)]
        \cup [kind : {"missing"}, at : {Len(fs)}]
        \cup (IF blob = "pub" THEN {[kind |-> "name", at |-> 1]} ELSE {})

\* the buffer and the length handed to a constructor
Faulty(k, blob, f) ==
    LET fs == BlobFields(k, blob)
        buf == IF f.kind = "negative" THEN EncodeFields(fs, f.at)
               ELSE IF f.kind = "missing"
               THEN EncodeFields(SubSeq(fs, 1, Len(fs) - 1), 0)
               ELSE IF f.kind = "name"
               THEN EncodeFields([fs EXCEPT ![1] = SSH_DSS_NAME], 0)
               ELSE EncodeFields(fs, 0)
    IN  [buf |-> buf, len |-> IF f.kind = "truncated" THEN f.at ELSE Len(buf)]

InitKeys ==
    /\ pc = "start"
    /\ \E k \in BlobKeys, blob \in BlobNames :
          \E f \in Faults(k, blob) :
             /\ arg = [op |-> "none", base |-> k, blob |-> blob, fault |-> f]
             /\ data = [b \in BlobNames |->
                          Faulty(k, b, IF b = blob THEN f
                                       ELSE [kind |-> "none", at |-> 0])]
    /\ key = NoKey
    /\ ret = NULL
    /\ loc = <<>>

\* what the caller is left with; going through an absent key or bignum is
\* undefined: the process is stopped, or the call returns with any pointer
Finish(op, out, retpc, rest) ==
    /\ arg' = [arg EXCEPT !.op = op]
    /\ loc' = [how |-> out.how, struct |-> out.struct, live |-> out.live,
               rest |-> rest]
    /\ key' = out.key
    /\ IF out.how = "ret"
       THEN /\ pc' = retpc
            /\ ret' = IF out.nonnull THEN 1 ELSE NULL
       ELSE \/ /\ pc' = "segv"
               /\ ret' = ret
            \/ /\ pc' = retpc
               /\ ret' \in {NULL, 1}
    /\ UNCHANGED data

CallNewkey ==
    /\ pc = "start"
    /\ Finish("rsa2_newkey", rsa2_newkey(data["pub"].buf, data["pub"].len),
              "newkey_ret", [pos |-> 0, len |-> data["pub"].len])

CallCreatekey ==
    /\ pc = "start"
    /\ Finish("rsa2_createkey",
              rsa2_createkey(data["pub"].buf, data["pub"].len,
                             data["priv"].buf, data["priv"].len),
              "createkey_ret", [pos |-> 0, len |-> data["pub"].len])

CallOpensshCreatekey ==
    /\ pc = "start"
    /\ Finish("rsa2_openssh_createkey",
              rsa2_openssh_createkey(data["openssh"].buf, data["openssh"].len),
              "openssh_ret",
              openssh_rest(data["openssh"].buf, data["openssh"].len))

NextKeys ==
    \/ CallNewkey
    \/ CallCreatekey
    \/ CallOpensshCreatekey

SpecKeys == InitKeys /\ [][NextKeys]_vars

\* the blobs each constructor reads
BlobsOf(op) ==
    IF op = "rsa2_newkey" THEN {"pub"}
    ELSE IF op = "rsa2_createkey" THEN {"pub", "priv"}
    ELSE {"openssh"}

MalformedInput == arg.fault.kind # "none" /\ arg.blob \in BlobsOf(arg.op)

\* C9: a constructor given a truncated blob, a negative length prefix, a
\* wrong algorithm name or a blob lacking an mpint returns a null key with
\* the partly built key released, never going through an absent key or
\* bignum.
C9_MalformedBlobGivesNull ==
    (pc # "start" /\ MalformedInput) =>
        /\ pc # "segv"
        /\ loc.how = "ret"
        /\ ret = NULL
        /\ loc.struct = "freed"
        /\ loc.live = 0

(***************************************************************************)
(* HMAC.  A hash state is the bytes absorbed so far; the context holds     *)
(* h_outer, h_inner, h_live and the digest scratch buffer.                 *)
(***************************************************************************)
PAD_OUTER == 92
PAD_INNER == 54

\* block length of the hash (64 in the source)
HmacBlkLen == 3
\* digest length of the hash
HmacHashLen == 2

NoHash == [live |-> FALSE, bytes |-> <<>>]

ssh_hash_new == [live |-> TRUE, bytes |-> <<>>]

put_byte(h, b) == [h EXCEPT !.bytes = Append(@, b)]

put_data(h, s) == [h EXCEPT !.bytes = @ \o s]

ssh_hash_final(h) == hash_bytes(2, h.bytes, HmacHashLen)

\* lines 99-102 and 105-108: the state keyed with pad
RECURSIVE hmac_pad_loop(_, _, _, _, _)
hmac_pad_loop(h, kp, klen, pad, i) ==
    IF i >= HmacBlkLen /\ i >= klen THEN h
    ELSE hmac_pad_loop(put_byte(h, IF i < klen THEN Xor(pad % Radix, kp[i + 1])
                                   ELSE pad % Radix),
                       kp, klen, pad, i + 1)

hmac_new ==
    [h_outer |-> NoHash, h_inner |-> NoHash, h_live |-> NoHash,
     digest |-> [i \in 1 .. HmacHashLen |-> BYTE_FF]]

hmac_key_hash_at_blklen(ctx, k) ==
    LET kp == IF Len(k) >= HmacBlkLen THEN ssh_hash_final(put_data(ssh_hash_new, k))
              ELSE k
    IN  [ctx EXCEPT !.h_outer = hmac_pad_loop(ssh_hash_new, kp, Len(kp), PAD_OUTER, 0),
                    !.h_inner = hmac_pad_loop(ssh_hash_new, kp, Len(kp), PAD_INNER, 0)]

hmac_key(ctx, k) ==
    LET kp == IF Len(k) > HmacBlkLen THEN ssh_hash_final(put_data(ssh_hash_new, k))
              ELSE k
    IN  [ctx EXCEPT !.h_outer = hmac_pad_loop(ssh_hash_new, kp, Len(kp), PAD_OUTER, 0),
                    !.h_inner = hmac_pad_loop(ssh_hash_new, kp, Len(kp), PAD_INNER, 0)]

\* ok is FALSE when the assertion of line 118 fails
hmac_start(ctx) ==
    IF ~ctx.h_outer.live THEN [ok |-> FALSE, ctx |-> ctx]
    ELSE [ok |-> TRUE, ctx |-> [ctx EXCEPT !.h_live = ctx.h_inner]]

\* a write to the MAC's sink, which is h_live or, once cleared, nothing
hmac_absorb(ctx, s) ==
    IF ~ctx.h_live.live THEN [ok |-> FALSE, ctx |-> ctx]
    ELSE [ok |-> TRUE, ctx |-> [ctx EXCEPT !.h_live = put_data(@, s)]]

hmac_genresult_keeps_live(ctx, maclen) ==
    IF ~ctx.h_live.live THEN [ok |-> FALSE, ctx |-> ctx, output |-> <<>>]
    ELSE LET d1 == ssh_hash_final(ctx.h_live)
             d2 == ssh_hash_final(put_data(ctx.h_outer, d1))
         IN  [ok |-> TRUE,
              ctx |-> [ctx EXCEPT !.digest = [i \in 1 .. HmacHashLen |-> 0]],
              output |-> SubSeq(d2, 1, maclen)]

\* ok is FALSE when the assertion of line 131 fails
hmac_genresult(ctx, maclen) ==
    IF ~ctx.h_live.live THEN [ok |-> FALSE, ctx |-> ctx, output |-> <<>>]
    ELSE LET d1 == ssh_hash_final(ctx.h_live)
             d2 == ssh_hash_final(put_data(ctx.h_outer, d1))
         IN  [ok |-> TRUE,
              ctx |-> [ctx EXCEPT !.h_live = NoHash,
                                  !.digest = [i \in 1 .. HmacHashLen |-> 0]],
              output |-> SubSeq(d2, 1, maclen)]

(***************************************************************************)
(* Specification SpecHmac: one context and its caller.  arg records what   *)
(* the caller did: the key last set, the bytes absorbed since the last     *)
(* start, whether a start is not yet followed by a finalize, and whether   *)
(* the key was changed since that start.                                   *)
(***************************************************************************)
\* calls made on the context
MaxHmacOps == 7
\* longest message
MaxHmacMsg == 3

HmacKeys == { hash_bytes(c, <<L>>, L) : c \in 0 .. 1, L \in 0 .. HmacBlkLen + 1 }

HmacChunks == { <<>>, <<0>>, <<BYTE_FF>>, <<1, 0>> }

InitHmac ==
    /\ pc = "idle"
    /\ key = hmac_new
    /\ \E maclen \in 1 .. HmacHashLen :
          arg = [op |-> "hmac_new", K |-> <<>>, keyed |-> FALSE, m |-> <<>>,
                 started |-> FALSE, rekeyed |-> FALSE, maclen |-> maclen]
    /\ data = <<>>
    /\ ret = NULL
    /\ loc = [steps |-> 0, done |-> 0]

HmacStep ==
    /\ pc = "idle"
    /\ loc.steps < MaxHmacOps

CallHmacKey ==
    /\ HmacStep
    /\ \E k \in HmacKeys :
          /\ key' = hmac_key(key, k)
          /\ arg' = [arg EXCEPT !.op = "hmac_key", !.K = k, !.keyed = TRUE,
                                !.rekeyed = arg.started]
    /\ loc' = [loc EXCEPT !.steps = @ + 1]
    /\ UNCHANGED <<pc, data, ret>>

CallHmacStart ==
    /\ HmacStep
    /\ LET r == hmac_start(key)
       IN  /\ key' = r.ctx
           /\ pc' = IF r.ok THEN pc ELSE "abort"
           /\ arg' = IF r.ok
                     THEN [arg EXCEPT !.op = "hmac_start", !.m = <<>>,
                                      !.started = TRUE, !.rekeyed = FALSE]
                     ELSE [arg EXCEPT !.op = "hmac_start"]
    /\ loc' = [loc EXCEPT !.steps = @ + 1]
    /\ UNCHANGED <<data, ret>>

CallHmacAbsorb ==
    /\ HmacStep
    /\ \E s \in HmacChunks :
          /\ Len(arg.m) + Len(s) <= MaxHmacMsg
          /\ LET r == hmac_absorb(key, s)
             IN  /\ key' = r.ctx
                 /\ pc' = IF r.ok THEN pc ELSE "abort"
                 /\ arg' = IF r.ok
                           THEN [arg EXCEPT !.op = "put_data", !.m = @ \o s]
                           ELSE [arg EXCEPT !.op = "put_data"]
    /\ loc' = [loc EXCEPT !.steps = @ + 1]
    /\ UNCHANGED <<data, ret>>

CallHmacGenresult ==
    /\ HmacStep
    /\ LET r == hmac_genresult(key, arg.maclen)
       IN  /\ key' = r.ctx
           /\ pc' = IF r.ok THEN pc ELSE "abort"
           /\ data' = IF r.ok THEN r.output ELSE data
           /\ arg' = IF r.ok
                     THEN [arg EXCEPT !.op = "hmac_genresult", !.started = FALSE]
                     ELSE [arg EXCEPT !.op = "hmac_genresult"]
           /\ loc' = [steps |-> loc.steps + 1,
                      done |-> IF r.ok THEN loc.done + 1 ELSE loc.done]
    /\ UNCHANGED ret

NextHmac ==
    \/ CallHmacKey
    \/ CallHmacStart
    \/ CallHmacAbsorb
    \/ CallHmacGenresult

SpecHmac == InitHmac /\ [][NextHmac]_vars

\* RFC 2104 written out: K' is K, or H(K) when K is longer than a block,
\* zero-padded to the block length
RefHash(s) == hash_bytes(2, s, HmacHashLen)

RefKeyBlock(k) ==
    LET k1 == IF Len(k) > HmacBlkLen THEN RefHash(k) ELSE k
    IN  [i \in 1 .. (IF Len(k1) > HmacBlkLen THEN Len(k1) ELSE HmacBlkLen) |->
            IF i <= Len(k1) THEN k1[i] ELSE 0]

RefHmac(k, m, len) ==
    LET kb == RefKeyBlock(k)
        ipad == [i \in 1 .. Len(kb) |-> Xor(kb[i], PAD_INNER % Radix)]
        opad == [i \in 1 .. Len(kb) |-> Xor(kb[i], PAD_OUTER % Radix)]
    IN  SubSeq(RefHash(opad \o RefHash(ipad \o m)), 1, len)

\* C11: every finalize whose message saw no set_key since its start puts
\* out the first len bytes of H((K' xor 5C) || H((K' xor 36) || m)), m being
\* the bytes absorbed since the most recent start.
C11_HmacIsRfc2104 ==
    (pc = "idle" /\ arg.op = "hmac_genresult" /\ ~arg.rekeyed) =>
        data = RefHmac(arg.K, arg.m, arg.maclen)

C11_Witness ==
    /\ pc = "idle"
    /\ arg.op = "hmac_genresult"
    /\ ~arg.rekeyed
    /\ loc.done = 2
    /\ Len(arg.K) = HmacBlkLen
    /\ Len(arg.m) = 2
    /\ data = RefHmac(arg.K, arg.m, arg.maclen)

\* C12: the live state is non-null exactly from a start to the next
\* finalize; absorb or finalize without a live state, and start without a
\* key, end in an assertion failure.
C12_LiveStateLifecycle ==
    /\ [](pc = "idle" => (key.h_live.live <=> arg.started))
    /\ [](pc = "idle" /\ arg.op = "hmac_genresult" => ~key.h_live.live)
    /\ [][(loc'.steps # loc.steps) =>
            /\ (arg'.op \in {"put_data", "hmac_genresult"} /\ ~arg.started)
                  => pc' = "abort"
            /\ (arg'.op = "hmac_start" /\ ~arg.keyed) => pc' = "abort"]_vars

C12_Witness ==
    /\ pc = "abort"
    /\ arg.op = "hmac_genresult"
    /\ loc.done = 1
    /\ ~key.h_live.live

(***************************************************************************)
(* Further properties of rsa_privkey_op and crt_modpow under SpecPriv.     *)
(***************************************************************************)
\* C13: every blinding value the rejection loop accepts lies in 2..n-1 and
\* has an inverse modulo n (a candidate outside the range or without an
\* inverse is never the one accepted).
C13_BlindingInRange ==
    (pc = "pk_blind") =>
        /\ loc.random \in 2 .. key.modulus - 1
        /\ \E y \in 1 .. key.modulus - 1 : (loc.random * y) % key.modulus = 1

CeilDiv(a, b) == (a + b - 1) \div b

\* the layout of the encoded message: 01, FF bytes, the ASN.1 prefix, the
\* hash
SignLayout(bytes, k, msg) ==
    /\ bytes[1] = 1
    /\ \A i \in 2 .. k - HashLen - ASN1_LEN : bytes[i] = BYTE_FF
    /\ SubSeq(bytes, k - HashLen - ASN1_LEN + 1, k - HashLen) = asn1_weird_stuff
    /\ SubSeq(bytes, k - HashLen + 1, k) = SHA_Simple(msg)

\* C14 as stated: the encoded message has length k = ceil((bits(n) - 1) / 8),
\* one less than the modulus byte length, and is 01, k - 20 - 16 - 1 bytes
\* FF, the ASN.1 prefix, the hash.
C14_Original ==
    (arg.op = "rsa2_sign" /\ pc # "abort") =>
        LET bits == bignum_bitcount(key.modulus)
            k == CeilDiv(bits - 1, ByteBits)
        IN  /\ Len(arg.bytes) = k
            /\ k = CeilDiv(bits, ByteBits) - 1
            /\ SignLayout(arg.bytes, k, arg.msg)

\* C14 amended: the length is k = floor((bits(n) - 1) / 8), one less than
\* the modulus byte length, with the same layout.
C14_EncodedMessage ==
    (arg.op = "rsa2_sign" /\ pc # "abort") =>
        LET bits == bignum_bitcount(key.modulus)
            k == (bits - 1) \div ByteBits
        IN  /\ Len(arg.bytes) = k
            /\ k = CeilDiv(bits, ByteBits) - 1
            /\ SignLayout(arg.bytes, k, arg.msg)

C14_Witness ==
    /\ arg.op = "rsa2_sign"
    /\ pc = "pk_loop"
    /\ bignum_bitcount(key.modulus) % ByteBits = 0
    /\ Len(arg.bytes) = (bignum_bitcount(key.modulus) - 1) \div ByteBits
    /\ Len(arg.msg) > 0

(***************************************************************************)
(* Specification SpecCrt: crt_modpow on keys in canonical order, every     *)
(* base below the modulus and every exponent up to MaxCrtExp.              *)
(***************************************************************************)
\* largest prime of the keys
MaxCrtPrime == 11
\* largest exponent
MaxCrtExp == 12

CrtKeys == KeysOver({p \in 3 .. MaxCrtPrime : IsPrime(p)})

InitCrt ==
    /\ pc = "start"
    /\ key \in CrtKeys
    /\ \E base \in 0 .. key.modulus - 1, exp \in 0 .. MaxCrtExp :
          arg = [op |-> "none", base |-> base, exp |-> exp]
    /\ ret = NULL
    /\ data = <<>>
    /\ loc = <<>>

CallCrtModpow ==
    /\ pc = "start"
    /\ ret' = crt_modpow(arg.base, arg.exp, key.modulus, key.p, key.q, key.iqmp)
    /\ loc' = crt_operands(arg.base, arg.exp, key.p, key.q)
    /\ arg' = [arg EXCEPT !.op = "crt_modpow"]
    /\ pc' = "crt_ret"
    /\ UNCHANGED <<key, data>>

NextCrt == CallCrtModpow

SpecCrt == InitCrt /\ [][NextCrt]_vars

\* C15: for mod = p*q, p and q distinct primes, iqmp the inverse of q mod p,
\* crt_modpow returns base^exp mod mod for every base in 0..mod-1 and every
\* exp >= 0.
C15_CrtEqualsModpow ==
    (pc = "crt_ret") => ret = RefPow(arg.base, arg.exp, key.modulus)

\* C16: with p > q, presult >= qresult holds at the subtraction, after p
\* has been added to presult when presult < qresult.
C16_SubtractionNonNegative ==
    (pc = "crt_ret") => loc.presult >= loc.qresult

C16_Witness ==
    /\ pc = "crt_ret"
    /\ key.p > key.q
    /\ loc.presult0 < loc.qresult
    /\ loc.presult = loc.presult0 + key.p

\* C17: when rsa_privkey_op returns, its blinding digest buffer digest512
\* has been cleared (every byte zero), whatever number of candidates was
\* rejected.
C17_DigestCleared ==
    (pc = "pk_ret") => \A i \in 1 .. Len(loc.digest512) : loc.digest512[i] = 0

\* C18: rsa_public_blob_len returns -1 or a length of at most maxlen, and
\* agrees with rsa_ssh1_readpub called on the same buffer in EXPONENT_FIRST
\* order without a result record.
C18_BlobLenWithinMaxlen ==
    (pc = "bloblen_ret") =>
        /\ ret = -1 \/ ret <= arg.len
        /\ ret = rsa_ssh1_readpub(data, arg.len, FALSE, "EXPONENT_FIRST").ret

=============================================================================
